---- MODULE Spec2Model ----
(***************************************************************************)
(* Model of the DAS research prototype (src/src/main.rs): a proposer that  *)
(* erasure-codes a blob into n = k+m shards and sends some of them, and a  *)
(* validator that accumulates shards per filename and reconstructs the     *)
(* blob once k distinct indices are stored.                                *)
(*                                                                         *)
(* The Reed-Solomon engine (crate reed_solomon_erasure, galois_8) is       *)
(* modelled by what it computes: GF(2^8) arithmetic with generating        *)
(* polynomial 29, the systematic Vandermonde encoding matrix, and          *)
(* reconstruction by inverting the sub-matrix of the first k present rows. *)
(***************************************************************************)
EXTENDS Integers, Sequences, FiniteSets, TLC

\* ------------------------------------------------------------------------
\* Program constants (main.rs:20-22)
DATA_SHARDS == 4
PARITY_SHARDS == 2
TOTAL_SHARDS == DATA_SHARDS + PARITY_SHARDS

\* ------------------------------------------------------------------------
\* GF(2^8) as in reed_solomon_erasure::galois_8
FIELD_SIZE == 256
GENERATING_POLYNOMIAL == 29

RECURSIVE Xor(_, _)
Xor(a, b) ==
    IF a = 0 THEN b
    ELSE IF b = 0 THEN a
    ELSE ((a + b) % 2) + 2 * Xor(a \div 2, b \div 2)

\* next power of the generator: b <<= 1; if FIELD_SIZE <= b { b = (b - FIELD_SIZE) ^ poly }
GfShift(b) ==
    LET s == 2 * b
    IN  IF FIELD_SIZE <= s THEN Xor(s - FIELD_SIZE, GENERATING_POLYNOMIAL) ELSE s

\* a * b in GF(2^8): shift-and-add over the bits of b
RECURSIVE GfMulPoly(_, _)
GfMulPoly(a, b) ==
    IF b = 0 THEN 0
    ELSE Xor(IF b % 2 = 1 THEN a ELSE 0, GfMulPoly(GfShift(a), b \div 2))

\* generator^l (the generator is 2, one shift)
RECURSIVE GfPowGen(_)
GfPowGen(l) ==
    IF l = 0 THEN 1
    ELSE IF l % 2 = 1 THEN GfShift(GfPowGen(l - 1))
    ELSE LET h == GfPowGen(l \div 2) IN GfMulPoly(h, h)

\* gen_exp_table: EXP_TABLE[l+1] = generator^l, l in 0..254
RECURSIVE GenExpTable(_, _)
GenExpTable(lo, hi) ==
    IF lo = hi THEN <<GfPowGen(lo)>>
    ELSE LET mid == (lo + hi) \div 2
         IN  GenExpTable(lo, mid) \o GenExpTable(mid + 1, hi)

EXP_TABLE == GenExpTable(0, FIELD_SIZE - 2)

\* gen_log_table: LOG_TABLE[a] = l with generator^l = a, a in 1..255
RECURSIVE GenLogTable(_, _)
GenLogTable(lo, hi) ==
    IF lo = hi THEN <<(CHOOSE l \in 0..(FIELD_SIZE - 2) : EXP_TABLE[l + 1] = lo)>>
    ELSE LET mid == (lo + hi) \div 2
         IN  GenLogTable(lo, mid) \o GenLogTable(mid + 1, hi)

LOG_TABLE == GenLogTable(1, FIELD_SIZE - 1)

GfAdd(a, b) == Xor(a, b)

GfMul(a, b) ==
    IF a = 0 \/ b = 0 THEN 0
    ELSE EXP_TABLE[((LOG_TABLE[a] + LOG_TABLE[b]) % (FIELD_SIZE - 1)) + 1]

\* a / b, b # 0
GfDiv(a, b) ==
    IF a = 0 THEN 0
    ELSE EXP_TABLE[((LOG_TABLE[a] - LOG_TABLE[b] + (FIELD_SIZE - 1)) % (FIELD_SIZE - 1)) + 1]

GfExp(a, n) ==
    IF n = 0 THEN 1
    ELSE IF a = 0 THEN 0
    ELSE EXP_TABLE[((LOG_TABLE[a] * n) % (FIELD_SIZE - 1)) + 1]

\* ------------------------------------------------------------------------
\* Matrices over GF(2^8): sequences of rows, rows are sequences of bytes

\* the sequence with the elements of f (evaluates every element once)
Vec(f) == f \o <<>>

RECURSIVE GfSum(_)
GfSum(s) == IF s = <<>> THEN 0 ELSE GfAdd(Head(s), GfSum(Tail(s)))

\* dot product of two equally long byte vectors
GfDot(u, v) == GfSum(Vec([i \in 1..Len(u) |-> GfMul(u[i], v[i])]))

Vandermonde(rows, cols) ==
    Vec([r \in 1..rows |-> Vec([c \in 1..cols |-> GfExp(r - 1, c - 1)])])

MatMul(A, B) ==
    Vec([r \in 1..Len(A) |->
        Vec([c \in 1..Len(B[1]) |-> GfDot(A[r], Vec([i \in 1..Len(B) |-> B[i][c]]))])])

Identity(n) == Vec([r \in 1..n |-> Vec([c \in 1..n |-> IF r = c THEN 1 ELSE 0])])

RowScale(row, s) == Vec([c \in 1..Len(row) |-> GfMul(row[c], s)])
RowAddScaled(row, s, other) ==
    Vec([c \in 1..Len(row) |-> GfAdd(row[c], GfMul(s, other[c]))])

\* The elimination steps are functions of the matrix, so that each step works
\* on the value the previous step produced.
Matrix == Seq(Seq(Nat))

\* Err(SingularMatrix) is the matrix with no rows
SingularMatrix == <<>>

\* swap in the first lower row with a non-zero entry in column r when the
\* diagonal entry is zero
PivotSwap[A \in Matrix, r \in Nat] ==
    IF A[r][r] # 0 THEN A
    ELSE LET below == {rb \in (r + 1)..Len(A) : A[rb][r] # 0}
         IN  IF below = {} THEN A
             ELSE LET rb == CHOOSE x \in below : \A y \in below : x <= y
                  IN  [A EXCEPT ![r] = A[rb], ![rb] = A[r]]

\* scale row r so that its diagonal entry is 1
ScalePivot[A \in Matrix, r \in Nat] ==
    [A EXCEPT ![r] = RowScale(A[r], GfDiv(1, A[r][r]))]

\* subtract multiples of row r from the rows below it
ClearBelow[A \in Matrix, r \in Nat] ==
    Vec([rb \in 1..Len(A) |->
            IF rb > r /\ A[rb][r] # 0
            THEN RowAddScaled(A[rb], A[rb][r], A[r])
            ELSE A[rb]])

\* forward elimination from row r on; SingularMatrix when no pivot exists
ElimDown[A \in Matrix, r \in Nat] ==
    IF r > Len(A) THEN A
    ELSE IF PivotSwap[A, r][r][r] = 0 THEN SingularMatrix
    ELSE ElimDown[ClearBelow[ScalePivot[PivotSwap[A, r], r], r], r + 1]

\* subtract multiples of row d from the rows above it
ClearAbove[A \in Matrix, d \in Nat] ==
    Vec([ra \in 1..Len(A) |->
            IF ra < d /\ A[ra][d] # 0
            THEN RowAddScaled(A[ra], A[ra][d], A[d])
            ELSE A[ra]])

\* clear everything above the diagonal, column d on
ElimUp[A \in Matrix, d \in Nat] ==
    IF d > Len(A) THEN A
    ELSE ElimUp[ClearAbove[A, d], d + 1]

RightHalf[A \in Matrix] ==
    Vec([r \in 1..Len(A) |-> SubSeq(A[r], Len(A) + 1, 2 * Len(A))])

\* Matrix::invert: Gauss-Jordan on [M | I]; SingularMatrix if M has no inverse
Invert(M) ==
    LET n == Len(M)
        low == ElimDown[Vec([r \in 1..n |-> M[r] \o Identity(n)[r]]), 1]
    IN  IF low = SingularMatrix THEN SingularMatrix
        ELSE RightHalf[ElimUp[low, 1]]

\* ReedSolomon::new(DATA_SHARDS, PARITY_SHARDS): build_matrix
\* vandermonde(total, data) * inverse(top data x data square)
BuildMatrix ==
    LET v == Vandermonde(TOTAL_SHARDS, DATA_SHARDS)
        top == SubSeq(v, 1, DATA_SHARDS)
    IN  MatMul(v, Invert(top))

\* ------------------------------------------------------------------------
\* Byte strings are sequences of 0..255.  Option<Vec<u8>>: None is the empty
\* sequence, Some(d) the one-element sequence <<d>>.
None == <<>>
Some(d) == <<d>>
IsSome(o) == o # None
Unwrap(o) == o[1]

ShardIndices == 0..(TOTAL_SHARDS - 1)
DataIndices == 0..(DATA_SHARDS - 1)

\* the elements of a set of indices in increasing order
SortedSeq(S) ==
    Vec([c \in 1..Cardinality(S) |->
            CHOOSE x \in S : Cardinality({y \in S : y < x}) = c - 1])

\* one output shard: row * inputs, byte position by byte position
CodeSliceF[row \in Seq(Nat), inputs \in Seq(Seq(Nat)), shard_len \in Nat] ==
    Vec([j \in 1..shard_len |-> GfDot(row, Vec([c \in 1..Len(row) |-> inputs[c][j]]))])

CodeSlice(row, inputs, shard_len) == CodeSliceF[row, inputs, shard_len]

\* the shard arrays handed to the engine
ShardArray == [ShardIndices -> Seq(Nat)]
OptionArray == [ShardIndices -> Seq(Seq(Nat))]

\* ReedSolomon::encode(&mut shards) on total shards of which the first k hold
\* the data: Err(EmptyShard) when the first shard is empty, Err(IncorrectShardSize)
\* when the lengths differ; otherwise the parity shards are overwritten.
RsEncodeF[shards \in ShardArray] ==
    LET size == Len(shards[0])
    IN  IF size = 0 THEN [err |-> "EmptyShard", shards |-> shards]
        ELSE IF \E i \in ShardIndices : Len(shards[i]) # size
        THEN [err |-> "IncorrectShardSize", shards |-> shards]
        ELSE [err |-> "Ok",
              shards |-> [i \in ShardIndices |->
                  IF i \in DataIndices THEN shards[i]
                  ELSE CodeSlice(BuildMatrix[i + 1],
                                 Vec([c \in 1..DATA_SHARDS |-> shards[c - 1]]), size)]]

RsEncode(shards) == RsEncodeF[shards]

\* get_data_decode_matrix: the inverse of the rows valid_indices of the
\* encoding matrix.  The engine caches these matrices; the cache holds one
\* for every choice of k rows.
ValidIndexSeqs ==
    {SortedSeq(S) : S \in {T \in SUBSET ShardIndices : Cardinality(T) = DATA_SHARDS}}

DataDecodeMatrixCache ==
    [v \in ValidIndexSeqs |->
        Invert(Vec([c \in 1..DATA_SHARDS |-> BuildMatrix[v[c] + 1]]))] @@ <<>>

DataDecodeMatrix(valid_indices) == DataDecodeMatrixCache[valid_indices]

\* the missing shards, given all k data shards (data[i + 1] is data shard i)
FillMissing[shards \in OptionArray, data \in Seq(Seq(Nat)), shard_len \in Nat] ==
    [i \in ShardIndices |->
        IF IsSome(shards[i]) THEN shards[i]
        ELSE IF i \in DataIndices THEN Some(data[i + 1])
        ELSE Some(CodeSlice(BuildMatrix[i + 1], data, shard_len))]

\* ReedSolomon::reconstruct(&mut shards), shards : ShardIndices -> Option.
\* The shards are scanned in index order: a present shard that is empty gives
\* Err(EmptyShard), one whose length differs from that of the present shard
\* before it Err(IncorrectShardSize), and the first such shard decides.  With
\* all present nothing is done; with fewer than k present it fails; otherwise
\* the first k present rows of the encoding matrix are inverted, the missing
\* data shards are computed from those k shards, and the missing parity from
\* the data.
RsReconstructF[shards \in OptionArray] ==
    LET present == {i \in ShardIndices : IsSome(shards[i])}
        lens == {Len(Unwrap(shards[i])) : i \in present}
        first == CHOOSE i \in present : \A j \in present : i <= j
        \* up to the first offending shard every present shard has the
        \* length of the first present one
        bad == {i \in present :
                   \/ Len(Unwrap(shards[i])) = 0
                   \/ Len(Unwrap(shards[i])) # Len(Unwrap(shards[first]))}
        first_bad == CHOOSE i \in bad : \A j \in bad : i <= j
    IN  IF bad # {}
        THEN [err |-> IF Len(Unwrap(shards[first_bad])) = 0 THEN "EmptyShard"
                      ELSE "IncorrectShardSize",
              shards |-> shards]
        ELSE IF Cardinality(present) = TOTAL_SHARDS
        THEN [err |-> "Ok", shards |-> shards]
        ELSE IF Cardinality(present) < DATA_SHARDS
        THEN [err |-> "TooFewShardsPresent", shards |-> shards]
        ELSE LET shard_len == CHOOSE l \in lens : TRUE
                 valid_indices == SubSeq(SortedSeq(present), 1, DATA_SHARDS)
                 sub_shards == Vec([c \in 1..DATA_SHARDS |-> Unwrap(shards[valid_indices[c]])])
                 data == Vec([c \in 1..DATA_SHARDS |->
                     IF IsSome(shards[c - 1]) THEN Unwrap(shards[c - 1])
                     ELSE CodeSlice(DataDecodeMatrix(valid_indices)[c], sub_shards,
                                    shard_len)])
             IN  [err |-> "Ok", shards |-> FillMissing[shards, data, shard_len]]

RsReconstruct(shards) == RsReconstructF[shards]

\* ------------------------------------------------------------------------
\* Helper functions of main.rs

\* SHA-256 rendered as hex: modelled as a collision-free digest, the tagged
\* byte string itself; a checksum string that is the digest of nothing is
\* tagged differently.
calculate_sha256(data) == <<"sha256", data>>

Zeros(n) == Vec([i \in 1..n |-> 0])

pad_data(data, k) ==
    LET remainder == Len(data) % k
    IN  IF remainder # 0 THEN data \o Zeros(k - remainder) ELSE data

\* encode_shards: the result of r.encode(..).unwrap() -- a panic when encode
\* returns an error
encode_shards(data) ==
    LET padded == pad_data(data, DATA_SHARDS)
        shard_len == Len(padded) \div DATA_SHARDS
        shards == [i \in ShardIndices |->
            IF i \in DataIndices
            THEN SubSeq(padded, i * shard_len + 1, (i + 1) * shard_len)
            ELSE Zeros(shard_len)]
        r == RsEncode(shards)
    IN  [panic |-> r.err # "Ok", shards |-> r.shards]

\* lines 179-187 of run_validator on a map whose indices are all in range:
\* place the stored shards, reconstruct, concatenate the k data shards
RECURSIVE Concat(_, _)
Concat(shards, i) ==
    IF i = DATA_SHARDS THEN <<>>
    ELSE (IF IsSome(shards[i]) THEN Unwrap(shards[i]) ELSE <<>>) \o Concat(shards, i + 1)

PlaceShards(map) ==
    [i \in ShardIndices |-> IF i \in DOMAIN map THEN Some(map[i]) ELSE None]

\* line 171 as an insert that keeps the payload already stored for the index
MapInsertKeepFirst(map, index, data) ==
    IF index \in DOMAIN map THEN map
    ELSE [i \in (DOMAIN map) \cup {index} |-> IF i = index THEN data ELSE map[i]]

\* line 171, HashMap::insert: the later value replaces an earlier one for the
\* same key
MapInsert(map, index, data) ==
    [i \in (DOMAIN map) \cup {index} |-> IF i = index THEN data ELSE map[i]]

EmptyMap == <<>>

\* line 189 left out: the padding stays on the reconstructed bytes
NoTruncate(reconstructed, original_len) == reconstructed

\* line 189: reconstructed.truncate(original_len)
Truncate(reconstructed, original_len) == SubSeq(reconstructed, 1, original_len)

\* the comparison of lines 162 and 190 left out: every payload is accepted
ChecksumIgnored(data, checksum) == TRUE

\* lines 162 and 190: the digest of the bytes against the declared checksum
ChecksumMatches(data, checksum) == calculate_sha256(data) = checksum

\* lines 183-196, after r.reconstruct returned Ok with the shards r_shards:
\* concatenate, truncate, compare the digest; the entry is cleared
AfterDecode[r_shards \in OptionArray, original_len \in Nat] ==
    LET reconstructed == Concat(r_shards, 0)
    IN  IF Len(reconstructed) < original_len
        THEN [long_enough |-> FALSE, reconstructed |-> reconstructed]
        ELSE [long_enough |-> TRUE,
              reconstructed |-> Truncate(reconstructed, original_len)]

\* line 196 left out: the entry is never cleared
NeverClear(ins, outcome) == ins

\* line 196 moved behind the if of line 182: cleared after every attempt
\* that returns
AlwaysClear(ins, outcome) ==
    IF outcome = "write_failed" THEN ins ELSE EmptyMap

\* lines 182-197: the entry after r.reconstruct was called on the entry ins.
\* map.clear() is inside `if let Ok(_)` and outside the length and digest
\* checks: an Err keeps the entry, an Ok clears it whatever the checks say;
\* when File::create fails the function is left at line 192 and line 196 is
\* not reached
MapAfterAttempt(ins, outcome) ==
    IF outcome \in {"decode_failed", "write_failed"} THEN ins ELSE EmptyMap

\* line 177 with the parity count in the place of the data count
ThresholdParity(map) == Cardinality(DOMAIN map) >= PARITY_SHARDS

\* line 177: map.len() >= DATA_SHARDS
Threshold(map) == Cardinality(DOMAIN map) >= DATA_SHARDS

\* The output files are created in the working directory, which holds no
\* subdirectory when the validator starts and gets none from it.
\* File::create(format!("recv_{}", filename)) (lines 164, 192) therefore
\* succeeds for a filename that is a bare name and fails for one with a
\* directory component.  A directory standing at the output path makes
\* File::create fail likewise: DirFilename stands for every filename whose
\* output file cannot be created.
Basenames == {"a", "b"}
DirFilename == "nodir/x"
CanCreate(filename) == filename \in Basenames

\* the DasShard arm with a check of the declared checksum on arrival: a
\* shard whose full_file_checksum is no SHA-256 digest is not stored
DasArmChecksDeclared(map, msg) ==
    IF msg.full_file_checksum[1] # "sha256"
    THEN [outcome |-> "stored", map |-> map, reconstructed |-> <<>>]
    ELSE LET ins == MapInsert(map, msg.index, msg.data)
         IN  IF ~Threshold(ins)
             THEN [outcome |-> "stored", map |-> ins, reconstructed |-> <<>>]
             ELSE IF \E idx \in DOMAIN ins : idx >= TOTAL_SHARDS
             THEN [outcome |-> "panic", map |-> ins, reconstructed |-> <<>>]
             ELSE LET r == RsReconstruct(PlaceShards(ins))
                  IN  IF r.err # "Ok"
                      THEN [outcome |-> "decode_failed", map |-> ins,
                            reconstructed |-> <<>>]
                      ELSE LET d == AfterDecode[r.shards, msg.original_len]
                               o == IF ~d.long_enough THEN "too_short"
                                    ELSE IF ~ChecksumMatches(d.reconstructed,
                                                    msg.full_file_checksum)
                                    THEN "checksum_mismatch"
                                    ELSE IF CanCreate(msg.filename)
                                    THEN "verified" ELSE "write_failed"
                           IN  [outcome |-> o,
                                map |-> MapAfterAttempt(ins, o),
                                reconstructed |-> d.reconstructed]

\* The DasShard arm of run_validator on the entry `map` of the message's
\* filename: insert, and at threshold try to reconstruct.  outcome is
\*   "stored"            below threshold, nothing attempted
\*   "panic"             shards[*idx] with idx >= TOTAL_SHARDS (index out of bounds)
\*   "decode_failed"     r.reconstruct returned Err; the entry is kept
\*   "too_short"         decoded, reconstructed.len() < original_len; entry cleared
\*   "checksum_mismatch" decoded, digest differs; entry cleared
\*   "verified"          decoded, digest equal: file written; entry cleared
\*   "write_failed"      decoded, digest equal, File::create(..)? fails: the
\*                       error is returned from run_validator, entry not cleared
DasArm(map, msg) ==
    LET ins == MapInsert(map, msg.index, msg.data)
    IN  IF ~Threshold(ins)
        THEN [outcome |-> "stored", map |-> ins, reconstructed |-> <<>>]
        ELSE IF \E idx \in DOMAIN ins : idx >= TOTAL_SHARDS
        THEN [outcome |-> "panic", map |-> ins, reconstructed |-> <<>>]
        ELSE LET r == RsReconstruct(PlaceShards(ins))
             IN  IF r.err # "Ok"
                 THEN [outcome |-> "decode_failed",
                       map |-> MapAfterAttempt(ins, "decode_failed"),
                       reconstructed |-> <<>>]
                 ELSE LET d == AfterDecode[r.shards, msg.original_len]
                          o == IF ~d.long_enough THEN "too_short"
                               ELSE IF ~ChecksumMatches(d.reconstructed,
                                                        msg.full_file_checksum)
                               THEN "checksum_mismatch"
                               ELSE IF CanCreate(msg.filename) THEN "verified"
                               ELSE "write_failed"
                      IN  [outcome |-> o,
                           map |-> MapAfterAttempt(ins, o),
                           reconstructed |-> d.reconstructed]

\* ------------------------------------------------------------------------
\* Wire messages (enum P2PMessage) and the other lines a peer can send
HandshakeMsg == [type |-> "Handshake", ts |-> 1000]
NaiveTransfer(filename, data, checksum) ==
    [type |-> "NaiveTransfer", filename |-> filename, data |-> data, checksum |-> checksum]
DasShard(filename, original_len, index, data, full_file_checksum) ==
    [type |-> "DasShard", filename |-> filename, original_len |-> original_len,
     index |-> index, data |-> data, full_file_checksum |-> full_file_checksum]
BlankLine == [type |-> "Blank"]          \* line.trim().is_empty()
GarbageLine == [type |-> "Garbage"]      \* serde_json::from_str fails
InvalidLine == [type |-> "InvalidUtf8"]  \* the codec yields Some(Err(_))

\* status output: a bag of events, event -> number of times printed
Event(ev, file) == [ev |-> ev, file |-> file]
BagAdd(bag, e) ==
    IF e \in DOMAIN bag THEN [bag EXCEPT ![e] = @ + 1]
    ELSE [x \in (DOMAIN bag) \cup {e} |-> IF x = e THEN 1 ELSE bag[x]]
Count(bag, e) == IF e \in DOMAIN bag THEN bag[e] ELSE 0
\* the number of elements of a bag, copies counted
RECURSIVE BagSizeOver(_, _)
BagSizeOver(bag, S) ==
    IF S = {} THEN 0
    ELSE LET e == CHOOSE x \in S : TRUE
         IN  bag[e] + BagSizeOver(bag, S \ {e})
BagSize(bag) == BagSizeOver(bag, DOMAIN bag)
EmptyBag == <<>>

\* output file names
RecvFile(filename) == <<"recv_", filename>>
ReconstructedFile(filename) == <<"reconstructed_", filename>>

\* ------------------------------------------------------------------------
\* Bounds of the model
MaxConns == 2       \* connections made to the validator
MaxLines == 5       \* lines sent by raw peers, all connections together
MaxBlobLen == 5     \* longest blob a proposer reads
MaxIndex == 6       \* largest shard index a raw peer declares

Conns == 1..MaxConns
\* the filenames a message can carry
Filenames == Basenames \cup {DirFilename}

\* the blob of length n read by the proposer: bytes 1, 2, ..., n scaled into
\* the upper half of the byte range
Blob(n) == Vec([i \in 1..n |-> (i * 51) % FIELD_SIZE])
Blobs == {Blob(n) : n \in 0..MaxBlobLen}

VARIABLES
    vpc,            \* validator: "accept" | "handshake" | "read" | "panicked" | "exited"
    cur,            \* the connection being served, 0 when none
    shard_buffer,   \* filename -> (index -> payload), entries created lazily
    files,          \* output file name -> content
    out,            \* status events printed since the last accept
    writes,         \* output file name -> File::create calls since the last accept
    peer,           \* per connection: "none" | "open" | "closed" (the peer's side)
    wire,           \* per connection: lines sent by the peer, not yet read
    backlog,        \* connections established, not yet accepted
    session,        \* per connection: "none" | "active" | "ended"
    vhs,            \* per connection: Handshake messages the validator sent
    delivered,      \* filename -> bag of the indices of the DasShard messages read since the last accept
    attempts,       \* filename -> reconstruct calls since the last accept
    start,          \* shard_buffer as it was at the last accept
    nsent,          \* lines sent by raw peers so far
    ppc,            \* proposer: "start" | "connected" | "handshaken" | "sending" | "sent" | "done" | "panicked"
    mode,           \* proposer: "Naive" | "DasFull" | "DasSample"
    pfile,          \* proposer: [filename, data] of the file read
    pshards,        \* proposer: encode_shards(data)
    indices,        \* proposer: the shuffled indices, taken up to count
    psent,          \* proposer: the messages sent, in order
    roundtrip       \* an encode / reconstruct round trip on its own: [pc, blob, subset, shards, outcome, result]

vvars == <<vpc, cur, shard_buffer, files, out, writes, session, vhs, 
           delivered, attempts, start>>
nvars == <<peer, wire, backlog, nsent>>
pvars == <<ppc, mode, pfile, pshards, indices, psent>>
vars == <<vvars, nvars, pvars, roundtrip>>

Entry(buffer, filename) ==
    IF filename \in DOMAIN buffer THEN buffer[filename] ELSE EmptyMap

\* lock.entry(filename).or_insert(..) followed by an assignment of the entry
SetEntry(buffer, filename, map) ==
    [f \in (DOMAIN buffer) \cup {filename} |-> IF f = filename THEN map ELSE buffer[f]]

\* no round trip is being made
NoRoundTrip ==
    [pc |-> "none", blob |-> <<>>, subset |-> {}, shards |-> <<>>,
     outcome |-> "none", result |-> <<>>]

Init ==
    /\ vpc = "accept"
    /\ cur = 0
    /\ shard_buffer = <<>>
    /\ files = <<>>
    /\ out = EmptyBag
    /\ writes = EmptyBag
    /\ peer = [c \in Conns |-> "none"]
    /\ wire = [c \in Conns |-> <<>>]
    /\ backlog = <<>>
    /\ session = [c \in Conns |-> "none"]
    /\ vhs = [c \in Conns |-> 0]
    /\ delivered = [f \in Filenames |-> EmptyBag]
    /\ attempts = [f \in Filenames |-> 0]
    /\ start = <<>>
    /\ nsent = 0
    /\ ppc = "start"
    /\ mode = "Naive"
    /\ pfile = [filename |-> "a", data |-> <<>>]
    /\ pshards = <<>>
    /\ indices = <<>>
    /\ psent = <<>>
    /\ roundtrip = NoRoundTrip

\* ------------------------------------------------------------------------
\* Validator (run_validator)

\* accept as it would be with every connection served by a task of its own:
\* the next connection is accepted while the read loop of another one runs
VAcceptAnytime ==
    /\ vpc \in {"accept", "read"}
    /\ backlog # <<>>
    /\ cur' = Head(backlog)
    /\ backlog' = Tail(backlog)
    /\ session' = [session EXCEPT ![Head(backlog)] = "active"]
    /\ vpc' = "handshake"
    /\ out' = EmptyBag
    /\ writes' = EmptyBag
    /\ delivered' = [f \in Filenames |-> EmptyBag]
    /\ attempts' = [f \in Filenames |-> 0]
    /\ start' = shard_buffer
    /\ UNCHANGED <<roundtrip, shard_buffer, files, vhs, peer, wire, nsent, pvars>>

\* listener.accept() returns the oldest established connection
VAccept ==
    /\ vpc = "accept"
    /\ backlog # <<>>
    /\ cur' = Head(backlog)
    /\ backlog' = Tail(backlog)
    /\ session' = [session EXCEPT ![Head(backlog)] = "active"]
    /\ vpc' = "handshake"
    /\ out' = EmptyBag
    /\ writes' = EmptyBag
    /\ delivered' = [f \in Filenames |-> EmptyBag]
    /\ attempts' = [f \in Filenames |-> 0]
    /\ start' = shard_buffer
    /\ UNCHANGED <<roundtrip, shard_buffer, files, vhs, peer, wire, nsent, pvars>>

\* perform_handshake succeeds: one Handshake is sent to the peer
VHandshake ==
    /\ vpc = "handshake"
    /\ vhs' = [vhs EXCEPT ![cur] = @ + 1]
    /\ out' = BagAdd(out, Event("SessionSecured", ""))
    /\ vpc' = "read"
    /\ UNCHANGED <<roundtrip, cur, shard_buffer, files, writes, session, delivered,
                   attempts, start, nvars, pvars>>

\* the connection is over for the validator: back to accept
EndSession ==
    /\ vpc' = "accept"
    /\ session' = [session EXCEPT ![cur] = "ended"]
    /\ wire' = [wire EXCEPT ![cur] = <<>>]
    /\ cur' = 0

\* perform_handshake fails (the peer is gone): "Auth Failed", continue
VHandshakeFail ==
    /\ vpc = "handshake"
    /\ peer[cur] = "closed"
    /\ out' = BagAdd(out, Event("AuthFailed", ""))
    /\ EndSession
    /\ UNCHANGED <<roundtrip, shard_buffer, files, writes, vhs, delivered, attempts,
                   start, peer, backlog, nsent, pvars>>

\* framed.next() yields `line`: the oldest unread line of the connection
\* being served
FromWire(line) ==
    /\ vpc = "read"
    /\ wire[cur] # <<>>
    /\ line = Head(wire[cur])
    /\ wire' = [wire EXCEPT ![cur] = Tail(@)]
    /\ UNCHANGED nsent

\* the `_ => {}` arm as a check of the peer's Handshake that fails: the
\* read loop is left
VRecvHandshakeEnds(line) ==
    /\ line.type \in {"Blank", "Handshake"}
    /\ IF line.type = "Handshake"
       THEN /\ vpc' = "accept"
            /\ session' = [session EXCEPT ![cur] = "ended"]
            /\ cur' = 0
       ELSE UNCHANGED <<vpc, session, cur>>
    /\ UNCHANGED <<roundtrip, shard_buffer, files, out, writes, vhs,
                   delivered, attempts, start, peer, backlog, pvars>>

\* a blank line: continue; a Handshake: the `_ => {}` arm
VRecvIgnored(line) ==
    /\ line.type \in {"Blank", "Handshake"}
    /\ UNCHANGED <<roundtrip, vpc, cur, shard_buffer, files, out, writes, session, vhs,
                   delivered, attempts, start, peer, backlog, pvars>>

\* serde_json::from_str(&line)? : the error is returned from run_validator
VRecvGarbage(line) ==
    /\ line.type = "Garbage"
    /\ vpc' = "exited"
    /\ UNCHANGED <<roundtrip, cur, shard_buffer, files, out, writes, session, vhs,
                   delivered, attempts, start, peer, backlog, pvars>>

\* lines 160-167: the NaiveTransfer arm.  With an equal digest the file is
\* created and written; File::create(..)? failing returns the error from
\* run_validator after "Integrity Verified" was printed
VRecvNaive(line) ==
    /\ line.type = "NaiveTransfer"
    /\ IF ChecksumMatches(line.data, line.checksum)
       THEN /\ out' = BagAdd(out, Event("IntegrityVerified", line.filename))
            /\ IF CanCreate(line.filename)
               THEN /\ files' = SetEntry(files, RecvFile(line.filename), line.data)
                    /\ writes' = BagAdd(writes, RecvFile(line.filename))
                    /\ UNCHANGED vpc
               ELSE /\ vpc' = "exited"
                    /\ UNCHANGED <<files, writes>>
       ELSE /\ out' = BagAdd(out, Event("Corrupted", line.filename))
            /\ UNCHANGED <<vpc, files, writes>>
    /\ UNCHANGED <<roundtrip, cur, shard_buffer, session, vhs, delivered, attempts,
                   start, peer, backlog, pvars>>

\* the events printed by the DasShard arm for an outcome
DasEvents(bag, outcome, filename) ==
    IF outcome \in {"stored", "panic", "decode_failed"} THEN bag
    ELSE LET t == BagAdd(bag, Event("ThresholdReached", filename))
         IN  IF outcome \in {"verified", "write_failed"}
             THEN BagAdd(t, Event("ReconstructionSuccessful", filename))
             ELSE t

VRecvDasShard(line) ==
    /\ line.type = "DasShard"
    /\ LET r == DasArm(Entry(shard_buffer, line.filename), line)
       IN  /\ shard_buffer' = SetEntry(shard_buffer, line.filename, r.map)
           /\ vpc' = IF r.outcome = "panic" THEN "panicked"
                     ELSE IF r.outcome = "write_failed" THEN "exited"
                     ELSE vpc
           /\ out' = DasEvents(out, r.outcome, line.filename)
           /\ attempts' = [attempts EXCEPT ![line.filename] =
                              IF r.outcome \in {"stored", "panic"} THEN @ ELSE @ + 1]
           /\ IF r.outcome = "verified"
              THEN /\ files' = SetEntry(files, ReconstructedFile(line.filename),
                                        r.reconstructed)
                   /\ writes' = BagAdd(writes, ReconstructedFile(line.filename))
              ELSE UNCHANGED <<files, writes>>
           /\ delivered' = [delivered EXCEPT ![line.filename] = BagAdd(@, line.index)]
    /\ UNCHANGED <<roundtrip, cur, session, vhs, start, peer, backlog, pvars>>

\* line 207 without `map.len() < DATA_SHARDS`: every non-empty entry
ReportedNonEmpty(buffer) ==
    {f \in DOMAIN buffer : buffer[f] # EmptyMap}

\* lines 204-214: one report per filename whose entry is non-empty and below k
Reported(buffer) ==
    {f \in DOMAIN buffer :
        buffer[f] # EmptyMap /\ Cardinality(DOMAIN buffer[f]) < DATA_SHARDS}

LightClientReports(bag, buffer) ==
    LET new == {Event("AvailabilityVerified", f) : f \in Reported(buffer)}
    IN  [e \in (DOMAIN bag) \cup new |->
            Count(bag, e) + (IF e \in new THEN 1 ELSE 0)]

\* the read loop ends because the stream is closed
VEof ==
    /\ vpc = "read"
    /\ wire[cur] = <<>>
    /\ peer[cur] = "closed"
    /\ out' = LightClientReports(out, shard_buffer)
    /\ EndSession
    /\ UNCHANGED <<roundtrip, shard_buffer, files, writes, vhs, delivered, attempts,
                   start, peer, backlog, nsent, pvars>>

\* the read loop ends because the codec returns an error for the line
VRecvInvalid(line) ==
    /\ line.type = "InvalidUtf8"
    /\ out' = LightClientReports(out, shard_buffer)
    /\ vpc' = "accept"
    /\ session' = [session EXCEPT ![cur] = "ended"]
    /\ cur' = 0
    /\ UNCHANGED <<roundtrip, shard_buffer, files, writes, vhs, delivered, attempts,
                   start, peer, backlog, pvars>>

\* ------------------------------------------------------------------------
\* Raw peers: anything that connects and writes lines

\* a checksum string that is the digest of no blob
JunkChecksum == <<"junk", <<>>>>

\* the DasShard message an honest proposer sends for shard i of blob
GenuineShard(filename, blob, i) ==
    DasShard(filename, Len(blob), i, encode_shards(blob).shards[i],
             calculate_sha256(blob))

Tamper(d) == [d EXCEPT ![1] = (@ + 1) % FIELD_SIZE]

RawBlobA == Blob(MaxBlobLen)
RawBlobB == Blob(1)

\* the lines a raw peer chooses from: genuine shards of blob A under filename
\* "a" (the data shards and one parity shard), shards with a tampered or a
\* short payload, with a wrong declared checksum or length, with an index out
\* of range, a genuine shard of blob B under filename "b", naive transfers
\* with a right and a wrong checksum, a naive transfer under a filename with
\* a directory component, and lines that are no payload message
RawLines ==
    LET g0 == GenuineShard("a", RawBlobA, 0)
        g3 == GenuineShard("a", RawBlobA, 3)
    IN  {GenuineShard("a", RawBlobA, i) : i \in 0..DATA_SHARDS}
        \cup {[g0 EXCEPT !.data = Tamper(@)],
              [g0 EXCEPT !.data = Tail(@)],
              [g3 EXCEPT !.full_file_checksum = JunkChecksum],
              [g3 EXCEPT !.original_len = DATA_SHARDS * Len(g3.data) + 1]}
        \cup {[g0 EXCEPT !.index = i] : i \in TOTAL_SHARDS..MaxIndex}
        \cup {GenuineShard("b", RawBlobB, 0)}
        \cup {NaiveTransfer("a", RawBlobA, calculate_sha256(RawBlobA)),
              NaiveTransfer("a", RawBlobA, JunkChecksum)}
        \cup {NaiveTransfer(DirFilename, RawBlobB, calculate_sha256(RawBlobB))}
        \cup {HandshakeMsg, [HandshakeMsg EXCEPT !.ts = 0],
              BlankLine, GarbageLine, InvalidLine}

\* the lines of raw peers that send whole files: the data shards of blob A
\* under filename "a", the data shards of blob B and a naive transfer of it
\* under a filename with a directory component, and lines that are no
\* payload message
RawLinesF ==
    {GenuineShard("a", RawBlobA, i) : i \in DataIndices}
        \cup {GenuineShard(DirFilename, RawBlobB, i) : i \in DataIndices}
        \cup {NaiveTransfer(DirFilename, RawBlobB, calculate_sha256(RawBlobB))}
        \cup {HandshakeMsg, GarbageLine, InvalidLine}

\* the validator process is running
Alive == vpc \notin {"panicked", "exited"}

\* connections are numbered in the order they are made
RawConnect(c) ==
    /\ Alive
    /\ peer[c] = "none"
    /\ \A d \in Conns : d < c => peer[d] # "none"
    /\ peer' = [peer EXCEPT ![c] = "open"]
    /\ backlog' = Append(backlog, c)
    /\ UNCHANGED <<roundtrip, wire, nsent, vvars, pvars>>

\* A raw peer writes `line` and the read loop of its connection gets it: the
\* validator sees only the order of the lines, so the write and the read are
\* one step.
FromRaw(line) ==
    /\ vpc = "read"
    /\ peer[cur] = "open"
    /\ nsent < MaxLines
    /\ nsent' = nsent + 1
    /\ UNCHANGED wire

RawClose(c) ==
    /\ Alive
    /\ peer[c] = "open"
    /\ peer' = [peer EXCEPT ![c] = "closed"]
    /\ UNCHANGED <<roundtrip, wire, backlog, nsent, vvars, pvars>>

\* ------------------------------------------------------------------------
\* Proposer (run_proposer), on connection 1

\* count indices drawn one by one with replacement in the place of the shuffle
ShuffledWithRepeats(count) == [1..count -> ShardIndices]

\* indices.shuffle(..) then .take(count): any count distinct indices in any order
Shuffled(count) ==
    {o \in [1..count -> ShardIndices] : \A i, j \in 1..count : i # j => o[i] # o[j]}

SendCount(m) == IF m = "DasSample" THEN 2 ELSE DATA_SHARDS

PSend(msg) ==
    /\ wire' = [wire EXCEPT ![1] = Append(@, msg)]
    /\ psent' = Append(psent, msg)

\* the file is read, the checksum computed, the connection made
PStart ==
    /\ ppc = "start"
    /\ \E filename \in Basenames, data \in Blobs,
          m \in {"Naive", "DasFull", "DasSample"} :
            /\ pfile' = [filename |-> filename, data |-> data]
            /\ mode' = m
    /\ peer' = [peer EXCEPT ![1] = "open"]
    /\ backlog' = Append(backlog, 1)
    /\ ppc' = "connected"
    /\ UNCHANGED <<roundtrip, wire, nsent, pshards, indices, psent, vvars>>

\* the proposer going on to the payload without line 236
PHandshakeSkipped ==
    /\ ppc = "connected"
    /\ ppc' = "handshaken"
    /\ UNCHANGED <<roundtrip, wire, psent, peer, backlog, nsent, mode, pfile, pshards,
                   indices, vvars>>

PHandshake ==
    /\ ppc = "connected"
    /\ PSend(HandshakeMsg)
    /\ ppc' = "handshaken"
    /\ UNCHANGED <<roundtrip, peer, backlog, nsent, mode, pfile, pshards, indices, vvars>>

PSendNaive ==
    /\ ppc = "handshaken"
    /\ mode = "Naive"
    /\ PSend(NaiveTransfer(pfile.filename, pfile.data, calculate_sha256(pfile.data)))
    /\ ppc' = "sent"
    /\ UNCHANGED <<roundtrip, peer, backlog, nsent, mode, pfile, pshards, indices, vvars>>

\* encode_shards and the shuffle; a panic in encode_shards ends the process
PEncode ==
    /\ ppc = "handshaken"
    /\ mode \in {"DasFull", "DasSample"}
    /\ LET e == encode_shards(pfile.data)
       IN  IF e.panic
           THEN /\ ppc' = "panicked"
                /\ peer' = [peer EXCEPT ![1] = "closed"]
                /\ UNCHANGED <<pshards, indices>>
           ELSE /\ ppc' = "sending"
                /\ pshards' = e.shards
                /\ indices' \in Shuffled(SendCount(mode))
                /\ UNCHANGED peer
    /\ UNCHANGED <<roundtrip, wire, backlog, nsent, mode, pfile, psent, vvars>>

\* one iteration of the send loop: the shards sent so far are the messages
\* after the Handshake
PSendShard ==
    /\ ppc = "sending"
    /\ LET i == indices[Len(psent)]
       IN  PSend(DasShard(pfile.filename, Len(pfile.data), i, pshards[i],
                          calculate_sha256(pfile.data)))
    /\ ppc' = IF Len(psent) = Len(indices) THEN "sent" ELSE "sending"
    /\ UNCHANGED <<roundtrip, peer, backlog, nsent, mode, pfile, pshards, indices, vvars>>

\* the process exits: the connection is closed
PExit ==
    /\ ppc = "sent"
    /\ ppc' = "done"
    /\ peer' = [peer EXCEPT ![1] = "closed"]
    /\ UNCHANGED <<roundtrip, wire, backlog, nsent, mode, pfile, pshards, indices, psent, vvars>>

\* ------------------------------------------------------------------------
\* Specifications

\* the validator serving raw peers
Next ==
    \/ VAccept
    \/ VHandshake
    \/ VHandshakeFail
    \/ \E line \in RawLines : FromRaw(line) /\ VRecvIgnored(line)
    \/ \E line \in RawLines : FromRaw(line) /\ VRecvGarbage(line)
    \/ \E line \in RawLines : FromRaw(line) /\ VRecvInvalid(line)
    \/ \E line \in RawLines : FromRaw(line) /\ VRecvNaive(line)
    \/ \E line \in RawLines : FromRaw(line) /\ VRecvDasShard(line)
    \/ VEof
    \/ \E c \in Conns : RawConnect(c)
    \/ \E c \in Conns : RawClose(c)

Spec == Init /\ [][Next]_vars

\* the validator serving raw peers that send whole files, one of them under
\* a filename whose output file cannot be created
NextF ==
    \/ VAccept
    \/ VHandshake
    \/ VHandshakeFail
    \/ \E line \in RawLinesF : FromRaw(line) /\ VRecvIgnored(line)
    \/ \E line \in RawLinesF : FromRaw(line) /\ VRecvGarbage(line)
    \/ \E line \in RawLinesF : FromRaw(line) /\ VRecvInvalid(line)
    \/ \E line \in RawLinesF : FromRaw(line) /\ VRecvNaive(line)
    \/ \E line \in RawLinesF : FromRaw(line) /\ VRecvDasShard(line)
    \/ VEof
    \/ \E c \in Conns : RawConnect(c)
    \/ \E c \in Conns : RawClose(c)

SpecF == Init /\ [][NextF]_vars

\* the oldest unread line of each connection
WireHeads == {Head(wire[c]) : c \in {d \in Conns : wire[d] # <<>>}}

\* the validator serving one run of the proposer
NextP ==
    \/ VAccept
    \/ VHandshake
    \/ VHandshakeFail
    \/ \E line \in WireHeads : FromWire(line) /\ VRecvIgnored(line)
    \/ \E line \in WireHeads : FromWire(line) /\ VRecvNaive(line)
    \/ \E line \in WireHeads : FromWire(line) /\ VRecvDasShard(line)
    \/ VEof
    \/ PStart
    \/ PHandshake
    \/ PSendNaive
    \/ PEncode
    \/ PSendShard
    \/ PExit

SpecP == Init /\ [][NextP]_vars

\* ------------------------------------------------------------------------
\* The round trip on its own: encode_shards on a blob, then the DasShard arm
\* of run_validator fed k of the n shards, starting from an empty entry

MaxRtLen == 9        \* longest blob of a round trip
RtBytes == {0, 173}  \* the byte values of its blobs

RtBlobs == UNION {[1..n -> RtBytes] : n \in 0..MaxRtLen}
RtSubsets == {S \in SUBSET ShardIndices : Cardinality(S) = DATA_SHARDS}

InitRT ==
    /\ roundtrip \in [pc : {"input"}, blob : RtBlobs, subset : RtSubsets,
                      shards : {<<>>}, outcome : {"none"}, result : {<<>>}]
    /\ vpc = "accept"
    /\ cur = 0
    /\ shard_buffer = <<>>
    /\ files = <<>>
    /\ out = EmptyBag
    /\ writes = EmptyBag
    /\ peer = [c \in Conns |-> "none"]
    /\ wire = [c \in Conns |-> <<>>]
    /\ backlog = <<>>
    /\ session = [c \in Conns |-> "none"]
    /\ vhs = [c \in Conns |-> 0]
    /\ delivered = [f \in Filenames |-> EmptyBag]
    /\ attempts = [f \in Filenames |-> 0]
    /\ start = <<>>
    /\ nsent = 0
    /\ ppc = "start"
    /\ mode = "Naive"
    /\ pfile = [filename |-> "a", data |-> <<>>]
    /\ pshards = <<>>
    /\ indices = <<>>
    /\ psent = <<>>

\* encode_shards(&data): r.encode(..).unwrap() panics on an Err
RtEncode ==
    /\ roundtrip.pc = "input"
    /\ LET e == encode_shards(roundtrip.blob)
       IN  roundtrip' = [roundtrip EXCEPT
                            !.pc = IF e.panic THEN "panicked" ELSE "encoded",
                            !.shards = e.shards]
    /\ UNCHANGED <<vvars, nvars, pvars>>

\* the entry after the DasShard messages of the indices idxs[from..] were
\* inserted below the threshold
RECURSIVE InsertAll(_, _, _, _)
InsertAll(map, shards, idxs, from) ==
    IF from > Len(idxs) THEN map
    ELSE InsertAll(MapInsert(map, idxs[from], shards[idxs[from]]), shards, idxs, from + 1)

\* the shards of the subset arrive in index order with the blob's length and
\* checksum: the first k-1 are stored, the k-th reaches the threshold
RtReconstruct ==
    /\ roundtrip.pc = "encoded"
    /\ LET idxs == SortedSeq(roundtrip.subset)
           last == idxs[DATA_SHARDS]
           map == InsertAll(EmptyMap, roundtrip.shards,
                            SubSeq(idxs, 1, DATA_SHARDS - 1), 1)
           r == DasArm(map, DasShard("a", Len(roundtrip.blob), last,
                                     roundtrip.shards[last],
                                     calculate_sha256(roundtrip.blob)))
       IN  roundtrip' = [roundtrip EXCEPT !.pc = "done",
                                          !.outcome = r.outcome,
                                          !.result = r.reconstructed]
    /\ UNCHANGED <<vvars, nvars, pvars>>

NextRT == RtEncode \/ RtReconstruct

SpecRT == InitRT /\ [][NextRT]_vars

\* ------------------------------------------------------------------------
\* Properties

\* C1: full scenario.  In a run of the proposer in full-reconstruction mode,
\* once the validator has read DasShard messages of k distinct indices of
\* encode(blob) into an entry that was empty at the accept, it has made
\* exactly one reconstruct call, reported exactly one successful
\* reconstruction and created reconstructed_<filename> exactly once, with the
\* original blob as its content.
C1_FullScenario ==
    LET fn == pfile.filename
    IN  (/\ mode = "DasFull"
         /\ Entry(start, fn) = EmptyMap
         /\ Cardinality(DOMAIN delivered[fn]) = DATA_SHARDS)
        => /\ \A i \in DOMAIN delivered[fn] : delivered[fn][i] = 1
           /\ attempts[fn] = 1
           /\ Count(out, Event("ThresholdReached", fn)) = 1
           /\ Count(out, Event("ReconstructionSuccessful", fn)) = 1
           /\ Count(writes, ReconstructedFile(fn)) = 1
           /\ DOMAIN files = {ReconstructedFile(fn)}
           /\ files[ReconstructedFile(fn)] = pfile.data
           /\ calculate_sha256(files[ReconstructedFile(fn)])
                  = calculate_sha256(pfile.data)

\* the blob of the longest length was reconstructed from a set of shards
\* that holds a parity shard
C1_Witness ==
    /\ mode = "DasFull"
    /\ Len(pfile.data) = MaxBlobLen
    /\ Cardinality(DOMAIN delivered[pfile.filename]) = DATA_SHARDS
    /\ \E i \in DOMAIN delivered[pfile.filename] : i >= DATA_SHARDS
    /\ ReconstructedFile(pfile.filename) \in DOMAIN files
    /\ files[ReconstructedFile(pfile.filename)] = pfile.data

\* C2: sampling below the threshold.  While a connection has delivered fewer
\* than k distinct indices for a filename whose entry was empty at the
\* accept, no reconstruct call was made, no threshold or success report was
\* printed and no reconstructed_ file was created for it; "availability
\* verified" is printed for it exactly once when the read loop has ended
\* and at least one shard was delivered, and not before.
C2_SamplingBelowThreshold ==
    LET ended == vpc = "accept" /\ Count(out, Event("SessionSecured", "")) = 1
    IN  \A f \in Filenames :
            (/\ Entry(start, f) = EmptyMap
             /\ Cardinality(DOMAIN delivered[f]) < DATA_SHARDS)
            => /\ attempts[f] = 0
               /\ Count(out, Event("ThresholdReached", f)) = 0
               /\ Count(out, Event("ReconstructionSuccessful", f)) = 0
               /\ Count(writes, ReconstructedFile(f)) = 0
               /\ Count(out, Event("AvailabilityVerified", f))
                      = IF ended /\ delivered[f] # EmptyBag THEN 1 ELSE 0

\* a connection that delivered exactly two distinct indices has closed
C2_Witness ==
    /\ vpc = "accept"
    /\ Count(out, Event("SessionSecured", "")) = 1
    /\ Entry(start, "a") = EmptyMap
    /\ Cardinality(DOMAIN delivered["a"]) = 2
    /\ Count(out, Event("AvailabilityVerified", "a")) = 1
    /\ attempts["a"] = 0

\* C3: duplicate index.  When a DasShard message is read whose index the
\* entry of its filename already holds, the entry afterwards has the same
\* indices, the later payload under that index and the other payloads as
\* before (or was cleared by a reconstruction); with fewer than k indices in
\* the entry the duplicate triggers no reconstruct call and no report.
C3_DuplicateIndex ==
    [][\A line \in RawLines :
          (/\ FromRaw(line)
           /\ VRecvDasShard(line)
           /\ line.index \in DOMAIN Entry(shard_buffer, line.filename))
          => LET old == Entry(shard_buffer, line.filename)
                 new == Entry(shard_buffer', line.filename)
                 replaced == [old EXCEPT ![line.index] = line.data]
             IN  /\ new \in {replaced, EmptyMap}
                 /\ Cardinality(DOMAIN old) < DATA_SHARDS
                    => /\ new = replaced
                       /\ Cardinality(DOMAIN new) = Cardinality(DOMAIN old)
                       /\ attempts' = attempts
                       /\ out' = out
                       /\ files' = files]_vars

\* index 0 was delivered twice into the entry of "a", which holds it once,
\* with the genuine payload after the tampered one or the other way round
C3_Witness ==
    /\ Entry(start, "a") = EmptyMap
    /\ 0 \in DOMAIN delivered["a"]
    /\ delivered["a"][0] = 2
    /\ DOMAIN Entry(shard_buffer, "a") = {0}
    /\ attempts["a"] = 0

\* C4: integrity gate.  The content of a file changes only by a write; a
\* write happens only in the step that handles a NaiveTransfer or a DasShard
\* message.  A NaiveTransfer is written only when its data has the declared
\* digest, and then as received (and it is written whenever the file can be
\* created); one whose digest differs is reported corrupted and nothing is
\* written.  A DasShard message writes at most the reconstructed_ file of
\* its filename, and what it writes has the digest the message declares.
C4_IntegrityGate ==
    [][LET written == {name \in DOMAIN writes' :
                          Count(writes', name) > Count(writes, name)}
           changed == {name \in DOMAIN files' :
                          name \notin DOMAIN files \/ files'[name] # files[name]}
       IN  /\ changed \subseteq written
           /\ DOMAIN files \subseteq DOMAIN files'
           /\ written # {}
              => \E line \in RawLines :
                    FromRaw(line) /\ (VRecvNaive(line) \/ VRecvDasShard(line))
           /\ \A line \in RawLines :
                 (FromRaw(line) /\ VRecvNaive(line))
                 => IF calculate_sha256(line.data) = line.checksum
                    THEN /\ written = IF CanCreate(line.filename)
                                      THEN {RecvFile(line.filename)} ELSE {}
                         /\ \A name \in written : files'[name] = line.data
                    ELSE /\ written = {}
                         /\ files' = files
                         /\ Count(out', Event("Corrupted", line.filename))
                               = Count(out, Event("Corrupted", line.filename)) + 1
           /\ \A line \in RawLines :
                 (FromRaw(line) /\ VRecvDasShard(line))
                 => /\ written \subseteq {ReconstructedFile(line.filename)}
                    /\ \A name \in written :
                          calculate_sha256(files'[name]) = line.full_file_checksum]_vars

\* in one session a file was reconstructed and written, and a naive transfer
\* with a wrong checksum was discarded
C4_Witness ==
    /\ ReconstructedFile("a") \in DOMAIN files
    /\ Count(writes, ReconstructedFile("a")) = 1
    /\ Count(out, Event("Corrupted", "a")) = 1
    /\ RecvFile("a") \notin DOMAIN files

\* C5: round trip.  For every blob of every length from 0 on and every set
\* of k of the n indices, encoding the blob succeeds and reconstructing from
\* the shards of the set, concatenating the first k shards and truncating to
\* the blob's length gives the blob back, with the digest of the blob.
C5_RoundTripEveryLength ==
    /\ roundtrip.pc \in {"input", "encoded", "done"}
    /\ roundtrip.pc = "done"
       => /\ roundtrip.outcome = "verified"
          /\ roundtrip.result = roundtrip.blob
          /\ calculate_sha256(roundtrip.result) = calculate_sha256(roundtrip.blob)

\* C6: a line that fails to parse ends the read loop of its connection only:
\* after the step that reads such a line the validator process is running.
C6_ParseFailureEndsConnectionOnly ==
    [][(\E line \in RawLines :
           line.type = "Garbage" /\ FromRaw(line) /\ VRecvGarbage(line))
       => vpc' \notin {"panicked", "exited"}]_vars

\* C7: no sequence of lines that parse makes the validator crash.
C7_NeverCrashesOnParsedMessages == vpc # "panicked"

\* C8: handshake ordering.  The validator sends at most one Handshake on a
\* connection, is in its read loop only after it sent one, and has handled a
\* payload message of a connection only after it sent one there.  The
\* proposer has sent no message before line 236 and exactly one Handshake
\* after it, as the first message of the connection.
C8_HandshakeOrdering ==
    LET handshakes == {i \in 1..Len(psent) : psent[i].type = "Handshake"}
        payload == \/ \E f \in Filenames : delivered[f] # EmptyBag
                   \/ writes # EmptyBag
                   \/ \E e \in DOMAIN out :
                         e.ev \in {"IntegrityVerified", "Corrupted"}
    IN  /\ \A c \in Conns : vhs[c] <= 1
        /\ vpc = "read" => vhs[cur] = 1
        /\ payload => /\ Count(out, Event("SessionSecured", "")) = 1
                      /\ \A c \in Conns : session[c] # "none" => vhs[c] = 1
        /\ ppc \in {"start", "connected"} => psent = <<>>
        /\ ppc \notin {"start", "connected"} => handshakes = {1}

\* the proposer has sent the Handshake and all the shards and is gone, and
\* the validator has handled shards after a Handshake of its own
C8_Witness ==
    /\ ppc = "done"
    /\ Len(psent) = 1 + DATA_SHARDS
    /\ vhs[1] = 1
    /\ delivered[pfile.filename] # EmptyBag

\* C9: sequential sessions.  At most one connection is being served, and it
\* is the one the validator holds; a connection that waits in the backlog
\* has not been served; connections are served in the order they were made,
\* one only after every earlier one has ended.
C9_SequentialSessions ==
    /\ Cardinality({c \in Conns : session[c] = "active"}) <= 1
    /\ \A c \in Conns : session[c] = "active" <=> c = cur
    /\ \A i \in 1..Len(backlog) : session[backlog[i]] = "none"
    /\ \A c, d \in Conns :
          (c < d /\ session[d] # "none") => session[c] = "ended"

\* the second connection adds shards to an entry the first one left behind
C9_Witness ==
    /\ session[1] = "ended"
    /\ session[2] = "active"
    /\ Entry(start, "a") # EmptyMap
    /\ delivered["a"] # EmptyBag
    /\ Cardinality(DOMAIN Entry(shard_buffer, "a"))
          > Cardinality(DOMAIN Entry(start, "a"))

\* C10: send strategy.  When the send loop is over the proposer has sent k
\* DasShard messages in full-reconstruction mode and 2 in sampling mode (none
\* in naive mode); at all times the shards sent have pairwise distinct
\* indices below n and carry the file's name, the blob's length, the blob's
\* checksum and the shard of their index.
C10_SendStrategy ==
    LET sent == SelectSeq(psent, LAMBDA m : m.type = "DasShard")
    IN  /\ ppc \in {"sent", "done"}
           => Len(sent) = (IF mode = "DasFull" THEN DATA_SHARDS
                           ELSE IF mode = "DasSample" THEN 2 ELSE 0)
        /\ \A i, j \in 1..Len(sent) : i # j => sent[i].index # sent[j].index
        /\ \A i \in 1..Len(sent) :
              /\ sent[i].index \in 0..(TOTAL_SHARDS - 1)
              /\ sent[i].filename = pfile.filename
              /\ sent[i].original_len = Len(pfile.data)
              /\ sent[i].full_file_checksum = calculate_sha256(pfile.data)
              /\ sent[i].data = encode_shards(pfile.data).shards[sent[i].index]

\* a run in sampling mode is over: a Handshake and two shards were sent
C10_Witness ==
    /\ ppc = "done"
    /\ mode = "DasSample"
    /\ Len(psent) = 3
    /\ psent[2].type = "DasShard"
    /\ psent[3].type = "DasShard"

\* C11: sampling never reconstructs.  When every connection so far has
\* delivered two genuine shards of the file and nothing else (two successive
\* sampling-mode sends), the validator has made no reconstruct call, has
\* reported no threshold and no success, and has written no reconstructed_
\* file for it.
C11_SamplingNeverReconstructs ==
    LET genuine == encode_shards(RawBlobA).shards
        first == Entry(start, "a")
    IN  (/\ session[1] = "ended"
         /\ session[2] = "active"
         /\ nsent = 4
         /\ Cardinality(DOMAIN first) = 2
         /\ \A i \in DOMAIN first : i \in ShardIndices /\ first[i] = genuine[i]
         /\ BagSize(delivered["a"]) = 2
         /\ Cardinality(DOMAIN delivered["a"]) = 2)
        => /\ attempts["a"] = 0
           /\ Count(out, Event("ThresholdReached", "a")) = 0
           /\ Count(out, Event("ReconstructionSuccessful", "a")) = 0
           /\ ReconstructedFile("a") \notin DOMAIN files

\* C12: encode shape and padding.  For every blob of every length L from 0
\* on, pad_data appends zero bytes up to the smallest multiple of k that is
\* >= L, and encode_shards returns n shards, all of length padded_length / k,
\* the first k being the consecutive slices of the padded blob.
C12_EncodeShapeEveryLength ==
    roundtrip.pc # "input"
    => LET L == Len(roundtrip.blob)
           lshard == (L + DATA_SHARDS - 1) \div DATA_SHARDS
           padded == roundtrip.blob \o [i \in 1..(lshard * DATA_SHARDS - L) |-> 0]
           sh == roundtrip.shards
       IN  /\ pad_data(roundtrip.blob, DATA_SHARDS) = padded
           /\ roundtrip.pc # "panicked"
           /\ DOMAIN sh = 0..(TOTAL_SHARDS - 1)
           /\ \A i \in DOMAIN sh : Len(sh[i]) = lshard
           /\ \A i \in 0..(DATA_SHARDS - 1) :
                 sh[i] = SubSeq(padded, i * lshard + 1, (i + 1) * lshard)

\* C13: a checksum mismatch does not clear.  When the message read brings
\* the entry to the threshold and the attempt decodes, is long enough and
\* has a digest other than the declared checksum, the entry after the step
\* is the entry with the shard inserted: it is retained, still holds at
\* least k shards, and the next arrival re-attempts at once.
C13_MismatchRetainsEntry ==
    [][\A line \in RawLines :
          (/\ FromRaw(line)
           /\ VRecvDasShard(line)
           /\ DasArm(Entry(shard_buffer, line.filename), line).outcome
                 = "checksum_mismatch")
          => Entry(shard_buffer', line.filename)
                = MapInsert(Entry(shard_buffer, line.filename),
                            line.index, line.data)]_vars

\* C14: decode failure does not clear.  With the entry empty at the accept
\* and no attempt decoded so far, every index delivered is still in the
\* entry, and from the k-th distinct index on every insert entered the
\* reconstruction branch of line 177 on the whole entry: at least one
\* reconstruct call for every index from the k-th on and at most one for
\* every shard from the k-th on (the last one counted also when it ended in
\* the panic of line 180 on a stored index >= n).
C14_DecodeFailureKeepsEntry ==
    \A f \in Filenames :
        (/\ Entry(start, f) = EmptyMap
         /\ Count(out, Event("ThresholdReached", f)) = 0)
        => LET e == Entry(shard_buffer, f)
               n == Cardinality(DOMAIN e)
               crashed == IF /\ vpc = "panicked"
                             /\ n >= DATA_SHARDS
                             /\ \E i \in DOMAIN e : i >= TOTAL_SHARDS
                          THEN 1 ELSE 0
           IN  /\ DOMAIN e = DOMAIN delivered[f]
               /\ n < DATA_SHARDS => attempts[f] = 0
               /\ n >= DATA_SHARDS
                  => /\ attempts[f] + crashed >= n - DATA_SHARDS + 1
                     /\ attempts[f] + crashed
                           <= BagSize(delivered[f]) - DATA_SHARDS + 1

\* two attempts failed to decode: the second one on an entry of k+1 shards
C14_Witness ==
    /\ Entry(start, "a") = EmptyMap
    /\ Count(out, Event("ThresholdReached", "a")) = 0
    /\ attempts["a"] = 2
    /\ Cardinality(DOMAIN Entry(shard_buffer, "a")) = DATA_SHARDS + 1
    /\ vpc = "read"

\* C15: clear after success.  With the entry empty at the accept and every
\* attempt so far verified, and the process not ended by a failed
\* File::create, the file was written and the entry holds only
\* shards that arrived after the last reconstruction: none right after it,
\* fewer than k, and at most the number of shards delivered less k for every
\* reconstruction, so that a further one needs k fresh indices.
C15_ClearAfterSuccess ==
    \A f \in Filenames :
        (/\ vpc # "exited"
         /\ Entry(start, f) = EmptyMap
         /\ attempts[f] >= 1
         /\ attempts[f] = Count(out, Event("ReconstructionSuccessful", f)))
        => /\ ReconstructedFile(f) \in DOMAIN files
           /\ Cardinality(DOMAIN Entry(shard_buffer, f)) < DATA_SHARDS
           /\ Cardinality(DOMAIN Entry(shard_buffer, f))
                 <= BagSize(delivered[f]) - DATA_SHARDS * attempts[f]
           /\ DOMAIN Entry(shard_buffer, f) \subseteq DOMAIN delivered[f]

\* after a verified reconstruction from four shards a fifth shard was
\* stored in the emptied entry
C15_Witness ==
    /\ Entry(start, "a") = EmptyMap
    /\ attempts["a"] = 1
    /\ Count(out, Event("ReconstructionSuccessful", "a")) = 1
    /\ BagSize(delivered["a"]) = DATA_SHARDS + 1
    /\ Cardinality(DOMAIN Entry(shard_buffer, "a")) = 1
    /\ ReconstructedFile("a") \in DOMAIN files

\* C16: the handshake is send-only.  However a Handshake line read from the
\* peer is handled, whatever its content, the step changes no entry of the
\* shard buffer, writes no file, prints nothing and leaves the validator in
\* the read loop of the same connection.  (That payload is handled without
\* any Handshake received is the witness.)
C16_HandshakeIsSendOnly ==
    [][\A line \in RawLines :
          (/\ line.type = "Handshake"
           /\ FromRaw(line)
           /\ \/ VRecvIgnored(line)
              \/ VRecvGarbage(line)
              \/ VRecvInvalid(line)
              \/ VRecvNaive(line)
              \/ VRecvDasShard(line))
          => /\ shard_buffer' = shard_buffer
             /\ files' = files
             /\ writes' = writes
             /\ out' = out
             /\ vpc' = "read"
             /\ cur' = cur
             /\ session' = session]_vars

\* the first connection delivered four shards and no other line, so no
\* Handshake was received, and the file was reconstructed and written
C16_Witness ==
    /\ session[1] = "active"
    /\ nsent = DATA_SHARDS
    /\ BagSize(delivered["a"]) = DATA_SHARDS
    /\ Count(out, Event("ReconstructionSuccessful", "a")) = 1
    /\ ReconstructedFile("a") \in DOMAIN files

\* C17: shard-set invariant.  In every state every entry of the shard
\* buffer holds at most n shards and every stored index is below n.
C17_ShardSetInvariant ==
    \A f \in DOMAIN shard_buffer :
        /\ Cardinality(DOMAIN shard_buffer[f]) <= TOTAL_SHARDS
        /\ \A i \in DOMAIN shard_buffer[f] : i < TOTAL_SHARDS

\* C18: every reconstruct call ends in exactly one report: for every
\* filename the calls made since the accept are as many as the reports of a
\* verified reconstruction, of a checksum mismatch and of a decode failure
\* together.
C18_EveryAttemptReported ==
    \A f \in Filenames :
        attempts[f] = Count(out, Event("ReconstructionSuccessful", f))
                        + Count(out, Event("ChecksumMismatch", f))
                        + Count(out, Event("DecodeFailed", f))

\* C19: terminal observation.  "Availability verified" is printed for a
\* filename exactly when the read loop of the connection has ended and the
\* entry of the filename holds more than 0 and fewer than k shards, once; it
\* is printed for no empty entry and for no entry of k or more shards.  The
\* end of the read loop leaves the entries as they are: unless an attempt
\* decoded, an entry then holds what it held at the accept and what the
\* connection delivered.
C19_TerminalObservation ==
    LET ended == vpc = "accept" /\ Count(out, Event("SessionSecured", "")) = 1
    IN  \A f \in Filenames :
            LET n == Cardinality(DOMAIN Entry(shard_buffer, f))
            IN  /\ Count(out, Event("AvailabilityVerified", f))
                      = IF ended /\ 0 < n /\ n < DATA_SHARDS THEN 1 ELSE 0
                /\ (ended /\ Count(out, Event("ThresholdReached", f)) = 0)
                   => DOMAIN Entry(shard_buffer, f)
                         = DOMAIN Entry(start, f) \cup DOMAIN delivered[f]

\* the second connection has ended without delivering a shard of "a": the
\* entry the first connection left below the threshold is still there and is
\* reported again
C19_Witness ==
    /\ session[2] = "ended"
    /\ vpc = "accept"
    /\ Count(out, Event("SessionSecured", "")) = 1
    /\ delivered["a"] = EmptyBag
    /\ Entry(start, "a") # EmptyMap
    /\ Entry(shard_buffer, "a") = Entry(start, "a")
    /\ Count(out, Event("AvailabilityVerified", "a")) = 1

\* C20: declared values of earlier shards are not stored.  A DasShard
\* message whose insert triggers no attempt leaves the validator in the same
\* state whatever original_len and full_file_checksum it declares: the step
\* it makes is also the step of the message with any other declared length
\* and checksum.  Two runs that differ only in those values are therefore in
\* the same state when the triggering message arrives, and the attempt has
\* the same outcome, output file and resulting entry.
C20_DeclaredValuesNotStored ==
    [][LET lens == {0, Len(RawBlobA), Len(RawBlobA) + DATA_SHARDS}
           checksums == {calculate_sha256(RawBlobA), calculate_sha256(RawBlobB),
                         JunkChecksum}
       IN  \A line \in RawLines :
              (/\ FromRaw(line)
               /\ VRecvDasShard(line)
               /\ attempts' = attempts
               /\ vpc' = vpc)
              => \A n \in lens, c \in checksums :
                    VRecvDasShard([line EXCEPT !.original_len = n,
                                               !.full_file_checksum = c])]_vars

\* index 3, which is sent with three different declarations, arrived twice
\* among five shards; the fifth one triggered the only attempt, which was
\* verified
C20_Witness ==
    /\ Entry(start, "a") = EmptyMap
    /\ BagSize(delivered["a"]) = DATA_SHARDS + 1
    /\ Count(delivered["a"], 3) = 2
    /\ attempts["a"] = 1
    /\ Count(out, Event("ReconstructionSuccessful", "a")) = 1
    /\ Entry(shard_buffer, "a") = EmptyMap

============================================================================
